---- MODULE Spec2Model ----
(***************************************************************************)
(* State-machine model of the GridCal GUI adapters:                        *)
(*   - ObjectHistory / ProfilesModel   (GuiFunctions.py)                   *)
(*   - FileOpenThread / FileSaveThread (Session/file_handler.py)           *)
(*   - WiresTable / WiresCollection / TowerModel (TowerBuilder)            *)
(*   - ObjectsModel                    (GuiFunctions.py)                   *)
(*   - ResultsModel / PandasModel      (Session/results_model.py,          *)
(*                                      GuiFunctions.py)                   *)
(* Python objects that are shared by reference (numpy profile arrays) are  *)
(* modelled as cells of a heap, so that aliasing is visible.               *)
(***************************************************************************)
EXTENDS Integers, Sequences, FiniteSets, TLC

VARIABLES
    \* ---- ProfilesModel / ObjectHistory
    heap,                  \* array id -> contents of a numpy profile array
    profile,               \* column -> array id held by the element's profile attribute
    undo_stack,            \* ObjectHistory.undo_stack: entries (action, data)
    redo_stack,            \* ObjectHistory.redo_stack
    position,              \* ObjectHistory.position
    non_editable_indices,  \* ProfilesModel.non_editable_indices
    pm_op                  \* the last ProfilesModel call and what it saw (history variable)

pm_vars == <<heap, profile, undo_stack, redo_stack, position, non_editable_indices, pm_op>>

VARIABLES
    \* ---- FileOpenThread / FileSaveThread (one thread object)
    th_kind,      \* "open": FileOpenThread, "save": FileSaveThread
    th_pc,        \* position of run: "idle", the line about to execute, "engine",
                  \* "finished" (run returned), "raised" (run left by an exception)
    th_valid,     \* self.valid
    th_logger,    \* self.logger: the entries of the Logger object
    th_circuit,   \* self.circuit
    th_cancel,    \* self.__cancel__
    th_cancel_at, \* where run was when cancel() was first called (history variable)
    th_events,    \* the signals emitted by the current run, in emission order
    th_runs,      \* number of runs started on this thread object
    eng_logger,   \* file_handler.logger: the engine's log of the current call
    eng_called,   \* the engine's open/save was called in the current run
    eng_ret       \* what the engine's open call returned in the current run

th_vars == <<th_kind, th_pc, th_valid, th_logger, th_circuit, th_cancel, th_cancel_at, th_events,
             th_runs, eng_logger, eng_called, eng_ret>>

VARIABLES
    \* ---- WiresTable / WiresCollection / TowerModel (one model object)
    wm_kind,      \* which of the three classes the object is
    wm_wires,     \* self.wires / self.wires_in_tower / self.tower.wires_in_tower
    wm_header,    \* self.header / self.tower.header
    wm_count,     \* wires given at construction, plus added, minus removed
                  \* (history variable)
    wm_op         \* the last call on the model (history variable)

wm_vars == <<wm_kind, wm_wires, wm_header, wm_count, wm_op>>

VARIABLES
    \* ---- ObjectsModel
    om_objects,     \* the list self.objects refers to (shared with its owner);
                    \* an object is a record of its attributes and the symbol
                    \* its graphic_obj shows
    om_r,           \* self.r
    om_c,           \* self.c
    om_transposed,  \* self.transposed
    om_non_editable,\* self.non_editable_attributes
    om_check_unique,\* self.check_unique
    om_op           \* the last call and its arguments (history variable)

om_vars == <<om_objects, om_r, om_c, om_transposed, om_non_editable,
             om_check_unique, om_op>>

VARIABLES
    \* ---- ResultsModel / PandasModel (one table)
    rm_dtype,     \* the type of the cells of data_c: "float", "complex" or "str"
    rm_data,      \* data_c: rows of cells; a cell is a record of its real and
                  \* imaginary part in tenths and its text
    rm_columns,   \* cols_c
    rm_index,     \* index_c
    rm_decimals,  \* the decimals of format_string ('.<decimals>f')
    rm_clip,      \* the text of the clipboard
    rm_op         \* the last call, its arguments and what it returned
                  \* (history variable)

rm_vars == <<rm_dtype, rm_data, rm_columns, rm_index, rm_decimals, rm_clip, rm_op>>

vars == <<pm_vars, th_vars, wm_vars, om_vars, rm_vars>>

\* what the calls on one component leave alone
others_pm == <<th_vars, wm_vars, om_vars, rm_vars>>
others_th == <<pm_vars, wm_vars, om_vars, rm_vars>>
others_wm == <<pm_vars, th_vars, om_vars, rm_vars>>
others_om == <<pm_vars, th_vars, wm_vars, rm_vars>>
others_rm == <<pm_vars, th_vars, wm_vars, om_vars>>

----------------------------------------------------------------------------
(* Bounds                                                                  *)

\* ObjectHistory(max_undo_states): the configured maximum
MaxUndoStates == 1
\* number of profile arrays ever allocated (initial arrays, snapshots)
MaxArrays == 6

\* columns (elements), rows (time steps) and cell values of the profile table
Cols == {0, 1}
Rows == {0, 1}
Vals == {0, 1}
\* the column the owner may mark as not editable
LastCol == CHOOSE c \in Cols : \A d \in Cols : d <= c

\* the profile arrays the circuit holds when the model is constructed
InitialArrays == {[r \in Rows |-> 0]}

EmptyData == [x \in {} |-> 0]

NoOp == [name |-> "none", row |-> 0, col |-> 0, val |-> 0, changed |-> FALSE,
         before |-> <<>>, ret |-> "none", text |-> <<>>]

----------------------------------------------------------------------------
(* ObjectHistory                                                           *)

\* len(self.undo_stack) > (self.max_undo_states + 1)
History_too_long(stack) == Len(stack) > (MaxUndoStates + 1)

\* ObjectHistory.add_state: evict the oldest entry, stack the newest
History_add_state(stack, action_name, data) ==
    LET kept == IF History_too_long(stack) THEN Tail(stack) ELSE stack
    IN  Append(kept, [action |-> action_name, data |-> data])

History_can_undo == Len(undo_stack) > 0

History_can_redo == Len(redo_stack) > 0

\* list.pop(): the last entry, and the list without it
Top(stack) == stack[Len(stack)]

Pop(stack) == SubSeq(stack, 1, Len(stack) - 1)

----------------------------------------------------------------------------
(* ProfilesModel                                                           *)

\* the values of the profile array of column c
Content(h, prof, c) == h[prof[c]]

\* ProfilesModel.add_state, the loop: data[col] = profile(col).copy()
\* every copy is a new array of the heap
RECURSIVE CopyColumns(_, _, _, _)
CopyColumns(h, prof, cols, data) ==
    IF cols = {} THEN [heap |-> h, data |-> data]
    ELSE LET c == CHOOSE x \in cols : \A y \in cols : x <= y
         IN  CopyColumns(Append(h, h[prof[c]]), prof, cols \ {c},
                         data @@ (c :> (Len(h) + 1)))

\* a restore that forgets the setattr
ProfilesModel_restore_nothing(prof, data) == prof

\* ProfilesModel.restore: setattr(element, profile_property, array), no copy
ProfilesModel_restore(prof, data) ==
    [c \in DOMAIN prof |-> IF c \in DOMAIN data THEN data[c] ELSE prof[c]]

\* a thread object that was constructed and is never started
ThreadRest ==
    /\ th_kind = "open"
    /\ th_pc = "idle"
    /\ th_valid = FALSE
    /\ th_logger = <<>>
    /\ th_circuit = <<"none", 0>>
    /\ th_cancel = FALSE
    /\ th_cancel_at = "never"
    /\ th_events = <<>>
    /\ th_runs = 0
    /\ eng_logger = <<>>
    /\ eng_called = FALSE
    /\ eng_ret = <<"none", 0>>

\* a WiresTable that was constructed and is never used
WiresRest ==
    /\ wm_kind = "WiresTable"
    /\ wm_wires = <<>>
    /\ wm_header = <<"Name", "R (Ohm/km)", "GMR (m)">>
    /\ wm_count = 0
    /\ wm_op = [name |-> "none", index |-> 0]

NoResOp == [name |-> "none", valid |-> FALSE, role |-> "", row |-> 0, col |-> 0,
            none |-> TRUE, text |-> "", raised |-> FALSE]

\* a model over an empty table that is never used
ResultsRest ==
    /\ rm_dtype = "float"
    /\ rm_data = <<>>
    /\ rm_columns = <<>>
    /\ rm_index = <<>>
    /\ rm_decimals = 0
    /\ rm_clip = ""
    /\ rm_op = NoResOp

\* an ObjectsModel over an empty list that is never used
ObjectsRest ==
    /\ om_objects = <<>>
    /\ om_r = 0
    /\ om_c = 0
    /\ om_transposed = FALSE
    /\ om_non_editable = {}
    /\ om_check_unique = {}
    /\ om_op = [name |-> "none", row |-> 0, col |-> 0, val |-> "", changed |-> FALSE,
                ret |-> "none"]

\* ProfilesModel.__init__: history created, initial state of all columns added
ProfilesInit ==
    /\ \E a0 \in InitialArrays, a1 \in InitialArrays :
         LET h0 == <<a0, a1>>
             p0 == [c \in Cols |-> c + 1]
             cp == CopyColumns(h0, p0, Cols, EmptyData)
         IN  /\ heap = cp.heap
             /\ profile = p0
             /\ undo_stack = History_add_state(<<>>, "initial", cp.data)
    /\ redo_stack = <<>>
    /\ position = 0
    /\ non_editable_indices = {}
    /\ pm_op = NoOp

\* setData records every column
SetData_columns_all(c) == Cols

\* setData: the columns handed to add_state (columns=[c])
SetData_columns(c) == {c}

\* ProfilesModel.setData(index, value)
ProfilesModel_setData(r, c, value) ==
    /\ Len(heap) < MaxArrays
    /\ IF c \notin non_editable_indices
       THEN LET h1 == [heap EXCEPT ![profile[c]][r] = value]
                cp == CopyColumns(h1, profile, SetData_columns(c), EmptyData)
                st == History_add_state(undo_stack, "", cp.data)
            IN  /\ heap' = cp.heap
                /\ undo_stack' = st
                /\ position' = Len(st) - 1
       ELSE UNCHANGED <<heap, undo_stack, position>>
    /\ pm_op' = [name |-> "setData", row |-> r, col |-> c, val |-> value,
                 changed |-> (c \notin non_editable_indices
                              /\ heap[profile[c]][r] # value),
                 before |-> Content(heap, profile, c), ret |-> "True", text |-> <<>>]
    /\ UNCHANGED <<profile, redo_stack, non_editable_indices>>
    /\ UNCHANGED others_pm

\* ProfilesModel.undo
ProfilesModel_undo ==
    /\ IF History_can_undo
       THEN LET val == Top(undo_stack)
            IN  /\ undo_stack' = Pop(undo_stack)
                /\ redo_stack' = Append(redo_stack, val)
                /\ profile' = ProfilesModel_restore(profile, val.data)
       ELSE UNCHANGED <<undo_stack, redo_stack, profile>>
    /\ pm_op' = [NoOp EXCEPT !.name = "undo", !.changed = History_can_undo]
    /\ UNCHANGED <<heap, position, non_editable_indices>>
    /\ UNCHANGED others_pm

\* ProfilesModel.redo
ProfilesModel_redo ==
    /\ IF History_can_redo
       THEN LET val == Top(redo_stack)
            IN  /\ redo_stack' = Pop(redo_stack)
                /\ undo_stack' = Append(undo_stack, val)
                /\ profile' = ProfilesModel_restore(profile, val.data)
       ELSE UNCHANGED <<undo_stack, redo_stack, profile>>
    /\ pm_op' = [NoOp EXCEPT !.name = "redo", !.changed = History_can_redo]
    /\ UNCHANGED <<heap, position, non_editable_indices>>
    /\ UNCHANGED others_pm

\* the owner of the model marks a column as not editable
\* (non_editable_indices is a public list, empty after construction)
ProfilesModel_mark_non_editable(c) ==
    /\ c \notin non_editable_indices
    /\ c = LastCol
    /\ non_editable_indices' = non_editable_indices \cup {c}
    /\ pm_op' = [NoOp EXCEPT !.name = "mark", !.col = c]
    /\ UNCHANGED <<heap, profile, undo_stack, redo_stack, position>>
    /\ UNCHANGED others_pm

NextProfiles ==
    \/ \E r \in Rows, c \in Cols, v \in Vals : ProfilesModel_setData(r, c, v)
    \/ ProfilesModel_undo
    \/ ProfilesModel_redo
    \/ \E c \in Cols : ProfilesModel_mark_non_editable(c)

InitProfiles == ProfilesInit /\ ThreadRest /\ WiresRest /\ ObjectsRest /\ ResultsRest

SpecProfiles == InitProfiles /\ [][NextProfiles]_vars

----------------------------------------------------------------------------
(* ProfilesModel.paste_from_clipboard. The clipboard text is a sequence of *)
(* characters; rows and columns of the profile are counted from 0.         *)

\* the texts on the clipboard: empty, one value, a value of two digits, no
\* number, two columns, two rows, an empty first field, a trailing newline,
\* a number and no number, three columns, three rows
ClipTexts ==
    {<<>>, <<"1">>, <<"1", "1">>, <<"x">>, <<"1", "\t", "1">>, <<"1", "\n", "1">>,
     <<"\t", "1">>, <<"1", "\n">>, <<"1", "\t", "x">>,
     <<"1", "\t", "1", "\t", "1">>, <<"1", "\n", "1", "\n", "1">>}

\* text.split(sep): the pieces between the separators, empty ones included
RECURSIVE Split(_, _)
Split(s, sep) ==
    IF \A i \in DOMAIN s : s[i] # sep THEN <<s>>
    ELSE LET i == CHOOSE k \in DOMAIN s : s[k] = sep /\ \A j \in 1..(k - 1) : s[j] # sep
         IN  <<SubSeq(s, 1, i - 1)>> \o Split(SubSeq(s, i + 1, Len(s)), sep)

\* formatter(val) = float(val) raises ValueError unless val is a number
Formatter_ok(val) == Len(val) >= 1 /\ \A i \in DOMAIN val : val[i] = "1"

\* float(val) of a text of digits 1
RECURSIVE Formatter(_)
Formatter(val) == IF Len(val) <= 1 THEN 1 ELSE 10 * Formatter(Tail(val)) + 1

\* n = len(self.elements)
Paste_n == Cardinality(Cols)

\* nt = len(self.circuit.time_profile)
Paste_nt == Cardinality(Rows)

\* the row offset is ignored
Paste_r2_no_offset(r, row_idx) == r

\* r2 = r + row_idx
Paste_r2(r, row_idx) == r + row_idx

\* the inner loop of paste_from_clipboard over the values of one text row,
\* from value c on (st: the arrays and mod_cols so far)
RECURSIVE PasteValues(_, _, _, _, _)
PasteValues(st, values, c, r2, col_idx) ==
    IF c >= Len(values) THEN st
    ELSE LET val == values[c + 1]
             c2 == c + col_idx
             parsed == Formatter_ok(val)
         IN  PasteValues(
                 IF parsed /\ c2 < Paste_n /\ r2 < Paste_nt
                 THEN [heap |-> [st.heap EXCEPT ![profile[c2]][r2] = Formatter(val)],
                       mod_cols |-> Append(st.mod_cols, c2)]
                 ELSE st,
                 values, c + 1, r2, col_idx)

\* the outer loop over the text rows, from row r on
RECURSIVE PasteRows(_, _, _, _, _)
PasteRows(st, rows, r, row_idx, col_idx) ==
    IF r >= Len(rows) THEN st
    ELSE PasteRows(PasteValues(st, Split(rows[r + 1], "\t"), 0,
                               Paste_r2(r, row_idx), col_idx),
                   rows, r + 1, row_idx, col_idx)

\* ProfilesModel.paste_from_clipboard(row_idx, col_idx) with text on the
\* clipboard
ProfilesModel_paste_from_clipboard(text, row_idx, col_idx) ==
    LET st == PasteRows([heap |-> heap, mod_cols |-> <<>>], Split(text, "\n"), 0,
                        row_idx, col_idx)
        cols == {st.mod_cols[i] : i \in DOMAIN st.mod_cols}
    IN  /\ Len(heap) + Paste_n <= MaxArrays
        /\ IF Len(st.mod_cols) > 0
           THEN LET cp == CopyColumns(st.heap, profile, cols, EmptyData)
                    stack == History_add_state(undo_stack, "paste", cp.data)
                IN  /\ heap' = cp.heap
                    /\ undo_stack' = stack
                    /\ position' = Len(stack) - 1
           ELSE /\ heap' = st.heap
                /\ UNCHANGED <<undo_stack, position>>
        /\ pm_op' = [NoOp EXCEPT !.name = "paste", !.row = row_idx, !.col = col_idx,
                       !.changed = (st.heap # heap), !.ret = "None", !.text = text]
        /\ UNCHANGED <<profile, redo_stack, non_editable_indices>>
        /\ UNCHANGED others_pm

NextPaste ==
    \/ \E text \in ClipTexts, row_idx \in Rows, col_idx \in Cols :
          ProfilesModel_paste_from_clipboard(text, row_idx, col_idx)
    \/ \E r \in Rows, c \in Cols, v \in Vals : ProfilesModel_setData(r, c, v)
    \/ ProfilesModel_undo
    \/ \E c \in Cols : ProfilesModel_mark_non_editable(c)

SpecPaste == InitProfiles /\ [][NextPaste]_vars

----------------------------------------------------------------------------
(* ObjectHistory driven directly: add_state, undo and redo in any order.   *)
(* The data of an entry is not read by ObjectHistory: the column set it    *)
(* records stands for it.                                                  *)

\* entries held by the two stacks together
MaxEntries == 4

ActionNames == {"", "paste"}

HistoryData == {[c \in S |-> 0] : S \in (SUBSET Cols) \ {{}}}

\* ObjectHistory.__init__
HistoryInit ==
    /\ undo_stack = <<>>
    /\ redo_stack = <<>>
    /\ position = 0
    /\ heap = <<>>
    /\ profile = EmptyData
    /\ non_editable_indices = {}
    /\ pm_op = NoOp

\* ObjectHistory.add_state(action_name, data)
ObjectHistory_add_state(action_name, data) ==
    /\ Len(undo_stack) + Len(redo_stack) < MaxEntries
    /\ undo_stack' = History_add_state(undo_stack, action_name, data)
    /\ position' = Len(undo_stack') - 1
    /\ pm_op' = [NoOp EXCEPT !.name = "h_add_state"]
    /\ UNCHANGED <<redo_stack, heap, profile, non_editable_indices>>
    /\ UNCHANGED others_pm

\* ObjectHistory.undo (list.pop of an empty list raises: nothing changes)
ObjectHistory_undo ==
    /\ History_can_undo
    /\ undo_stack' = Pop(undo_stack)
    /\ redo_stack' = Append(redo_stack, Top(undo_stack))
    /\ pm_op' = [NoOp EXCEPT !.name = "h_undo"]
    /\ UNCHANGED <<position, heap, profile, non_editable_indices>>
    /\ UNCHANGED others_pm

\* ObjectHistory.redo
ObjectHistory_redo ==
    /\ History_can_redo
    /\ redo_stack' = Pop(redo_stack)
    /\ undo_stack' = Append(undo_stack, Top(redo_stack))
    /\ pm_op' = [NoOp EXCEPT !.name = "h_redo"]
    /\ UNCHANGED <<position, heap, profile, non_editable_indices>>
    /\ UNCHANGED others_pm

NextHistory ==
    \/ \E a \in ActionNames, d \in HistoryData : ObjectHistory_add_state(a, d)
    \/ ObjectHistory_undo
    \/ ObjectHistory_redo

InitHistory == HistoryInit /\ ThreadRest /\ WiresRest /\ ObjectsRest /\ ResultsRest

SpecHistory == InitHistory /\ [][NextHistory]_vars

----------------------------------------------------------------------------
(* FileOpenThread / FileSaveThread                                         *)
(* run executes on a worker thread, one statement per step; cancel is      *)
(* called from the UI thread and can fall between any two steps.  The      *)
(* engine (FileOpen.open, FileSave.save) is external: while it runs it may *)
(* call the text and progress callbacks, record errors in its own log, and *)
(* it ends by returning or by raising.                                     *)

\* runs started on one thread object
MaxRuns == 2
\* callbacks the engine makes during one call
MaxEngineEvents == 2
\* errors the engine records during one call
MaxEngineErrors == 2

NoCircuit == <<"none", 0>>

\* the log object is kept as it is
Logger_kept == th_logger

\* Logger(): a new, empty log
Logger_new == <<>>

\* Logger.__iadd__: the entries of other are added to self
Logger_iadd(self, other) == self \o other

\* signal.emit(...)
Emit(e) == th_events' = Append(th_events, e)

Count(seq, e) == Cardinality({i \in DOMAIN seq : seq[i] = e})

\* FileOpenThread.__init__ / FileSaveThread.__init__
ThreadInit ==
    /\ th_kind \in {"open", "save"}
    /\ th_pc = "idle"
    /\ th_valid = FALSE
    /\ th_logger = <<>>
    /\ th_circuit = IF th_kind = "open" THEN NoCircuit ELSE <<"given", 0>>
    /\ th_cancel = FALSE
    /\ th_cancel_at = "never"
    /\ th_events = <<>>
    /\ th_runs = 0
    /\ eng_logger = <<>>
    /\ eng_called = FALSE
    /\ eng_ret = NoCircuit

\* QThread.start(): run is entered (again, once the previous run has ended)
Thread_start ==
    /\ th_pc \in {"idle", "finished", "raised"}
    /\ th_runs < MaxRuns
    /\ th_runs' = th_runs + 1
    /\ th_pc' = IF th_kind = "open" THEN "l78" ELSE "l172"
    /\ th_events' = <<>>
    /\ eng_called' = FALSE
    /\ eng_ret' = NoCircuit
    /\ UNCHANGED <<th_kind, th_cancel_at, th_valid, th_logger, th_circuit, th_cancel, eng_logger>>
    /\ UNCHANGED others_th

\* cancel() that also ends the run
Thread_cancel_stops ==
    /\ th_cancel' = TRUE
    /\ th_cancel_at' = IF th_cancel THEN th_cancel_at ELSE th_pc
    /\ th_pc' = IF th_pc = "idle" THEN "idle" ELSE "finished"
    /\ UNCHANGED <<th_kind, th_valid, th_logger, th_circuit, th_events, th_runs,
                   eng_logger, eng_called, eng_ret>>
    /\ UNCHANGED others_th

\* FileOpenThread.cancel / FileSaveThread.cancel
Thread_cancel ==
    /\ th_cancel' = TRUE
    /\ th_cancel_at' = IF th_cancel THEN th_cancel_at ELSE th_pc
    /\ UNCHANGED <<th_kind, th_pc, th_valid, th_logger, th_circuit, th_events,
                   th_runs, eng_logger, eng_called, eng_ret>>
    /\ UNCHANGED others_th

\* ---- FileOpenThread.run

\* self.circuit = MultiCircuit()
Open_l78 ==
    /\ th_kind = "open" /\ th_pc = "l78"
    /\ th_circuit' = <<"empty", th_runs>>
    /\ th_pc' = "l82"
    /\ UNCHANGED <<th_kind, th_cancel_at, th_valid, th_logger, th_cancel, th_events, th_runs,
                   eng_logger, eng_called, eng_ret>>
    /\ UNCHANGED others_th

\* self.progress_text.emit('Loading ' + fname + '...'), file_name a list or not
Open_l82 ==
    /\ th_kind = "open" /\ th_pc = "l82"
    /\ Emit("Loading")
    /\ th_pc' = "l87"
    /\ UNCHANGED <<th_kind, th_cancel_at, th_valid, th_logger, th_circuit, th_cancel, th_runs,
                   eng_logger, eng_called, eng_ret>>
    /\ UNCHANGED others_th

\* self.logger = Logger()
Open_l87 ==
    /\ th_kind = "open" /\ th_pc = "l87"
    /\ th_logger' = Logger_new
    /\ th_pc' = "l89"
    /\ UNCHANGED <<th_kind, th_cancel_at, th_valid, th_circuit, th_cancel, th_events, th_runs,
                   eng_logger, eng_called, eng_ret>>
    /\ UNCHANGED others_th

\* file_handler = FileOpen(file_name=self.file_name)
Open_l89 ==
    /\ th_kind = "open" /\ th_pc = "l89"
    /\ eng_logger' = <<>>
    /\ th_pc' = "l91"
    /\ UNCHANGED <<th_kind, th_cancel_at, th_valid, th_logger, th_circuit, th_cancel, th_events,
                   th_runs, eng_called, eng_ret>>
    /\ UNCHANGED others_th

\* file_handler.open(text_func=..., progress_func=...) is entered
Open_l91_call ==
    /\ th_kind = "open" /\ th_pc = "l91"
    /\ eng_called' = TRUE
    /\ th_pc' = "engine"
    /\ UNCHANGED <<th_kind, th_cancel_at, th_valid, th_logger, th_circuit, th_cancel, th_events,
                   th_runs, eng_logger, eng_ret>>
    /\ UNCHANGED others_th

\* the returned circuit is not stored
Open_result_dropped(ret) == th_circuit

\* self.circuit = <what open returned>
Open_result(ret) == ret

\* file_handler.open returns; its result is assigned to self.circuit
Open_l91_return ==
    /\ th_kind = "open" /\ th_pc = "engine"
    /\ eng_ret' = <<"graph", th_runs>>
    /\ th_circuit' = Open_result(eng_ret')
    /\ th_pc' = "l94"
    /\ UNCHANGED <<th_kind, th_cancel_at, th_valid, th_logger, th_cancel, th_events, th_runs,
                   eng_logger, eng_called>>
    /\ UNCHANGED others_th

\* self.logger += file_handler.logger
Open_l94 ==
    /\ th_kind = "open" /\ th_pc = "l94"
    /\ th_logger' = Logger_iadd(th_logger, eng_logger)
    /\ th_pc' = "l95"
    /\ UNCHANGED <<th_kind, th_cancel_at, th_valid, th_circuit, th_cancel, th_events, th_runs,
                   eng_logger, eng_called, eng_ret>>
    /\ UNCHANGED others_th

\* self.valid = True
Open_l95 ==
    /\ th_kind = "open" /\ th_pc = "l95"
    /\ th_valid' = TRUE
    /\ th_pc' = "l98"
    /\ UNCHANGED <<th_kind, th_cancel_at, th_logger, th_circuit, th_cancel, th_events, th_runs,
                   eng_logger, eng_called, eng_ret>>
    /\ UNCHANGED others_th

\* the completion signal is emitted in the place of the last text
Post_event_done == "done_signal"

\* the text of the last progress_text event
Post_event == "Done!"

\* self.progress_text.emit('Done!')
Open_l98 ==
    /\ th_kind = "open" /\ th_pc = "l98"
    /\ Emit(Post_event)
    /\ th_pc' = "l100"
    /\ UNCHANGED <<th_kind, th_cancel_at, th_valid, th_logger, th_circuit, th_cancel, th_runs,
                   eng_logger, eng_called, eng_ret>>
    /\ UNCHANGED others_th

\* self.done_signal.emit()
Open_l100 ==
    /\ th_kind = "open" /\ th_pc = "l100"
    /\ Emit("done_signal")
    /\ th_pc' = "finished"
    /\ UNCHANGED <<th_kind, th_cancel_at, th_valid, th_logger, th_circuit, th_cancel, th_runs,
                   eng_logger, eng_called, eng_ret>>
    /\ UNCHANGED others_th

\* ---- FileSaveThread.run

\* self.progress_text.emit('Flushing ' + fname + ' into ' + fname + '...')
Save_l172 ==
    /\ th_kind = "save" /\ th_pc = "l172"
    /\ Emit("Flushing")
    /\ th_pc' = "l174"
    /\ UNCHANGED <<th_kind, th_cancel_at, th_valid, th_logger, th_circuit, th_cancel, th_runs,
                   eng_logger, eng_called, eng_ret>>
    /\ UNCHANGED others_th

\* self.logger = Logger()
Save_l174 ==
    /\ th_kind = "save" /\ th_pc = "l174"
    /\ th_logger' = Logger_new
    /\ th_pc' = "l176"
    /\ UNCHANGED <<th_kind, th_cancel_at, th_valid, th_circuit, th_cancel, th_events, th_runs,
                   eng_logger, eng_called, eng_ret>>
    /\ UNCHANGED others_th

\* file_handler = FileSave(self.circuit, self.file_name, ...)
Save_l176 ==
    /\ th_kind = "save" /\ th_pc = "l176"
    /\ eng_logger' = <<>>
    /\ th_pc' = "l183"
    /\ UNCHANGED <<th_kind, th_cancel_at, th_valid, th_logger, th_circuit, th_cancel, th_events,
                   th_runs, eng_called, eng_ret>>
    /\ UNCHANGED others_th

\* file_handler.save() is entered
Save_l183_call ==
    /\ th_kind = "save" /\ th_pc = "l183"
    /\ eng_called' = TRUE
    /\ th_pc' = "engine"
    /\ UNCHANGED <<th_kind, th_cancel_at, th_valid, th_logger, th_circuit, th_cancel, th_events,
                   th_runs, eng_logger, eng_ret>>
    /\ UNCHANGED others_th

\* file_handler.save() returns the engine's log: self.logger = <it>
Save_l183_return ==
    /\ th_kind = "save" /\ th_pc = "engine"
    /\ th_logger' = eng_logger
    /\ th_pc' = "l185"
    /\ UNCHANGED <<th_kind, th_cancel_at, th_valid, th_circuit, th_cancel, th_events, th_runs,
                   eng_logger, eng_called, eng_ret>>
    /\ UNCHANGED others_th

\* self.valid = True
Save_l185 ==
    /\ th_kind = "save" /\ th_pc = "l185"
    /\ th_valid' = TRUE
    /\ th_pc' = "l188"
    /\ UNCHANGED <<th_kind, th_cancel_at, th_logger, th_circuit, th_cancel, th_events, th_runs,
                   eng_logger, eng_called, eng_ret>>
    /\ UNCHANGED others_th

\* self.progress_text.emit('Done!')
Save_l188 ==
    /\ th_kind = "save" /\ th_pc = "l188"
    /\ Emit(Post_event)
    /\ th_pc' = "l190"
    /\ UNCHANGED <<th_kind, th_cancel_at, th_valid, th_logger, th_circuit, th_cancel, th_runs,
                   eng_logger, eng_called, eng_ret>>
    /\ UNCHANGED others_th

\* self.done_signal.emit()
Save_l190 ==
    /\ th_kind = "save" /\ th_pc = "l190"
    /\ Emit("done_signal")
    /\ th_pc' = "finished"
    /\ UNCHANGED <<th_kind, th_cancel_at, th_valid, th_logger, th_circuit, th_cancel, th_runs,
                   eng_logger, eng_called, eng_ret>>
    /\ UNCHANGED others_th

\* ---- the engine, while its open / save call runs

\* the engine calls text_func (progress_text.emit) or progress_func
\* (progress_signal.emit)
Engine_callback(e) ==
    /\ th_pc = "engine"
    /\ Len(th_events) - 1 < MaxEngineEvents
    /\ Emit(e)
    /\ UNCHANGED <<th_kind, th_cancel_at, th_pc, th_valid, th_logger, th_circuit, th_cancel,
                   th_runs, eng_logger, eng_called, eng_ret>>
    /\ UNCHANGED others_th

\* the engine records an error in its own log
Engine_log_error ==
    /\ th_pc = "engine"
    /\ Len(eng_logger) < MaxEngineErrors
    /\ eng_logger' = Append(eng_logger, <<"error", th_runs, Len(eng_logger) + 1>>)
    /\ UNCHANGED <<th_kind, th_cancel_at, th_pc, th_valid, th_logger, th_circuit, th_cancel,
                   th_events, th_runs, eng_called, eng_ret>>
    /\ UNCHANGED others_th

\* the engine call raises: the exception leaves run
Engine_raise ==
    /\ th_pc = "engine"
    /\ th_pc' = "raised"
    /\ UNCHANGED <<th_kind, th_cancel_at, th_valid, th_logger, th_circuit, th_cancel, th_events,
                   th_runs, eng_logger, eng_called, eng_ret>>
    /\ UNCHANGED others_th

NextThreads ==
    \/ Thread_start
    \/ Thread_cancel
    \/ Open_l78 \/ Open_l82 \/ Open_l87 \/ Open_l89 \/ Open_l91_call
    \/ Open_l91_return \/ Open_l94 \/ Open_l95 \/ Open_l98 \/ Open_l100
    \/ Save_l172 \/ Save_l174 \/ Save_l176 \/ Save_l183_call
    \/ Save_l183_return \/ Save_l185 \/ Save_l188 \/ Save_l190
    \/ \E e \in {"text", "progress"} : Engine_callback(e)
    \/ Engine_log_error
    \/ Engine_raise

InitThreads == ThreadInit /\ HistoryInit /\ WiresRest /\ ObjectsRest /\ ResultsRest

SpecThreads == InitThreads /\ [][NextThreads]_vars

----------------------------------------------------------------------------
(* WiresTable / WiresCollection / TowerModel                               *)

\* wires one model holds
MaxWires == 3

WireNames == {"a", "b"}

WireKinds == {"WiresTable", "WiresCollection", "TowerModel"}

\* the Wire (WiresTable) or WireInTower objects a caller passes to add
NewWires(kind) ==
    IF kind = "WiresTable"
    THEN {[name |-> n, r |-> x, gmr |-> 0] : n \in WireNames, x \in {0, 1}}
    ELSE {[name |-> n, xpos |-> x, ypos |-> 0, phase |-> 0] :
              n \in WireNames, x \in {0, 1}}

\* self.header of WiresTable and WiresCollection; TowerModel shows the header
\* of the Tower it was given
Headers(kind) ==
    CASE kind = "WiresTable" -> {<<"Name", "R (Ohm/km)", "GMR (m)">>}
      [] kind = "WiresCollection" -> {<<"name", "X (m)", "Y (m)", "phase">>}
      [] OTHER -> {<<"Wire", "X (m)", "Y (m)", "Phase">>, <<"Wire", "X (m)", "Y (m)">>}

\* the wires a model starts with: none in a WiresTable, the wires_in_tower
\* argument (copied) in a WiresCollection, those of the tower in a TowerModel
InitialWires(kind) ==
    IF kind = "WiresTable" THEN {<<>>}
    ELSE {<<>>} \cup {<<w>> : w \in NewWires(kind)}

\* list.pop(index) accepts -len <= index < len and raises IndexError otherwise
PopOk(list, index) == -Len(list) <= index /\ index < Len(list)

\* list.pop(index): the list without the element at index (negative: from the end)
ListPop(list, index) ==
    LET i == IF index < 0 THEN index + Len(list) ELSE index
    IN  [k \in 1..(Len(list) - 1) |-> IF k <= i THEN list[k] ELSE list[k + 1]]

\* rowCount returns the number of columns
Wires_rowCount_header == Len(wm_header)

\* rowCount: len of the list of wires
Wires_rowCount == Len(wm_wires)

\* columnCount: len(self.header) / len(self.tower.header)
Wires_columnCount == Len(wm_header)

\* __init__ of the three models
WiresInit ==
    /\ wm_kind \in WireKinds
    /\ wm_wires \in InitialWires(wm_kind)
    /\ wm_header \in Headers(wm_kind)
    /\ wm_count = Len(wm_wires)
    /\ wm_op = [name |-> "none", index |-> 0]

\* add(wire)
Wires_add(wire) ==
    /\ Len(wm_wires) < MaxWires
    /\ wm_wires' = Append(wm_wires, wire)
    /\ wm_count' = wm_count + 1
    /\ wm_op' = [name |-> "add", index |-> 0]
    /\ UNCHANGED <<wm_kind, wm_header>>
    /\ UNCHANGED others_wm

\* delete(index): pop raises IndexError for an index out of range, after
\* beginRemoveRows and with the list as it was
Wires_delete(index) ==
    /\ IF PopOk(wm_wires, index)
       THEN /\ wm_wires' = ListPop(wm_wires, index)
            /\ wm_count' = wm_count - 1
       ELSE UNCHANGED <<wm_wires, wm_count>>
    /\ wm_op' = [name |-> "delete", index |-> index]
    /\ UNCHANGED <<wm_kind, wm_header>>
    /\ UNCHANGED others_wm

\* TowerModel.delete_by_name, the loop from the last index down to 0
RECURSIVE DeleteByName(_, _, _)
DeleteByName(list, name, i) ==
    IF i < 0 THEN list
    ELSE DeleteByName(IF list[i + 1].name = name THEN ListPop(list, i) ELSE list,
                      name, i - 1)

\* TowerModel.delete_by_name(wire)
TowerModel_delete_by_name(name) ==
    /\ wm_kind = "TowerModel"
    /\ wm_wires' = DeleteByName(wm_wires, name, Len(wm_wires) - 1)
    /\ wm_count' = wm_count
                   - Cardinality({i \in DOMAIN wm_wires : wm_wires[i].name = name})
    /\ wm_op' = [name |-> "delete_by_name", index |-> 0]
    /\ UNCHANGED <<wm_kind, wm_header>>
    /\ UNCHANGED others_wm

\* self.index_prop of WiresTable and WiresCollection
Wires_index_prop(kind) ==
    IF kind = "WiresTable" THEN <<"name", "r", "gmr">>
    ELSE <<"name", "xpos", "ypos", "phase">>

\* self.converter of WiresTable and WiresCollection
Wires_converter(kind) ==
    IF kind = "WiresTable" THEN <<"str", "float", "float">>
    ELSE <<"str", "float", "float", "float">>

\* self.editable of WiresTable and WiresCollection
Wires_editable(kind) ==
    IF kind = "WiresTable" THEN <<TRUE, TRUE, TRUE>>
    ELSE <<FALSE, TRUE, TRUE, TRUE>>

\* the texts the editor of a cell hands to setData
EditorTexts == WireNames \cup {"1"}

\* float(text) raises ValueError unless the text is a number; str(text) never
ConvertOk(conv, text) == conv = "str" \/ text = "1"

\* str(text) is the text, float(text) the number it denotes
Convert(conv, text) ==
    IF conv = "str" THEN text ELSE IF text = "1" THEN 1 ELSE 0

\* is_used(name) of WiresTable and WiresCollection
Wires_is_used(name) == \E i \in DOMAIN wm_wires : wm_wires[i].name = name

\* setData(index, value) of WiresTable and WiresCollection, index a cell of
\* the view; a converter that raises ends the call with nothing set
Wires_setData(row, col, value) ==
    /\ wm_kind \in {"WiresTable", "WiresCollection"}
    /\ row + 1 \in DOMAIN wm_wires
    /\ col \in 0..(Wires_columnCount - 1)
    /\ LET attr == Wires_index_prop(wm_kind)[col + 1]
           conv == Wires_converter(wm_kind)[col + 1]
           set == [wm_wires EXCEPT ![row + 1][attr] = Convert(conv, value)]
       IN  wm_wires' =
             IF ~Wires_editable(wm_kind)[col + 1] THEN wm_wires
             ELSE IF attr = "tower_name"
                  THEN IF Wires_is_used(value) \/ ~ConvertOk(conv, value)
                       THEN wm_wires ELSE set
                  ELSE IF ConvertOk(conv, value) THEN set ELSE wm_wires
    /\ wm_op' = [name |-> "setData", index |-> row]
    /\ UNCHANGED <<wm_kind, wm_header, wm_count>>
    /\ UNCHANGED others_wm

NextWires ==
    \/ \E w \in NewWires(wm_kind) : Wires_add(w)
    \/ \E i \in (-MaxWires - 1)..MaxWires : Wires_delete(i)
    \/ \E n \in WireNames : TowerModel_delete_by_name(n)

InitWires == WiresInit /\ HistoryInit /\ ThreadRest /\ ObjectsRest /\ ResultsRest

SpecWires == InitWires /\ [][NextWires]_vars

\* the number of wires of an edited table
MaxEditedWires == 2

\* a WiresTable after its wires were added, or a WiresCollection over the
\* wires it was given
EditInit ==
    /\ wm_kind \in {"WiresTable", "WiresCollection"}
    /\ wm_wires \in UNION {[1..n -> NewWires(wm_kind)] : n \in 1..MaxEditedWires}
    /\ wm_header \in Headers(wm_kind)
    /\ wm_count = Len(wm_wires)
    /\ wm_op = [name |-> "none", index |-> 0]

\* edits of the cells of the view
NextWireEdit ==
    \E row \in 0..(Wires_rowCount - 1), col \in 0..(Wires_columnCount - 1) :
    \E v \in EditorTexts : Wires_setData(row, col, v)

InitWireEdit == EditInit /\ HistoryInit /\ ThreadRest /\ ObjectsRest /\ ResultsRest

SpecWireEdit == InitWireEdit /\ [][NextWireEdit]_vars

----------------------------------------------------------------------------
(* ObjectsModel                                                            *)

\* objects in the list the model shows
MaxObjects == 2

\* self.attributes, from editable_headers.keys()
Attributes == <<"name", "rate", "branch_type">>

\* self.attribute_types
AttrType == [name |-> "str", rate |-> "float", branch_type |-> "BranchType"]

\* the members of the BranchType enumeration
BranchTypes == {"line", "transformer"}

\* BranchType(value): raises ValueError unless value is one of its members
BranchType_ok(value) == value \in BranchTypes

\* the values an editor hands to setData for an attribute
AttrInputs(attr) ==
    CASE attr = "name" -> {"a", "b"}
      [] attr = "rate" -> {"0.0", "1.0"}
      [] OTHER -> BranchTypes \cup {"bogus"}

\* the objects of the owner's list; graphic_obj shows the symbol of the
\* branch type
NewObjects ==
    {[name |-> n, rate |-> "0.0", branch_type |-> b, symbol |-> b] :
        n \in {"a", "b"}, b \in BranchTypes}

ObjectLists == {<<>>} \cup {<<o>> : o \in NewObjects}
               \cup {<<o1, o2>> : o1 \in NewObjects, o2 \in NewObjects}

NoObjOp == [name |-> "none", row |-> 0, col |-> 0, val |-> "", changed |-> FALSE,
            ret |-> "none"]

\* ObjectsModel.__init__
ObjectsInit ==
    /\ om_objects \in {l \in ObjectLists : Len(l) <= MaxObjects}
    /\ om_r = Len(om_objects)
    /\ om_c = Len(Attributes)
    /\ om_transposed \in BOOLEAN
    /\ om_non_editable \in {{}, {"rate"}}
    /\ om_check_unique \in {{}, {"name"}}
    /\ om_op = NoObjOp

\* ObjectsModel.rowCount
ObjectsModel_rowCount == IF om_transposed THEN om_c ELSE om_r

\* ObjectsModel.columnCount
ObjectsModel_columnCount == IF om_transposed THEN om_r ELSE om_c

\* the transposition is ignored: the row is taken for the object
ObjectsModel_obj_idx_row(row, col) == row

\* setData / data_with_type: the index of the object
ObjectsModel_obj_idx(row, col) == IF om_transposed THEN col ELSE row

\* setData / data_with_type: the index of the attribute
ObjectsModel_attr_idx(row, col) == IF om_transposed THEN row ELSE col

\* no value is ever reported as taken
ObjectsModel_attr_taken_never(attr, val) == FALSE

\* ObjectsModel.attr_taken
ObjectsModel_attr_taken(attr, val) ==
    \E i \in DOMAIN om_objects : om_objects[i][attr] = val

\* the owner appends an object to the list the model was given
Owner_append(obj) ==
    /\ Len(om_objects) < MaxObjects
    /\ om_objects' = Append(om_objects, obj)
    /\ om_op' = [NoObjOp EXCEPT !.name = "append"]
    /\ UNCHANGED <<om_r, om_c, om_transposed, om_non_editable, om_check_unique>>
    /\ UNCHANGED others_om

\* the owner removes an object from the list the model was given
Owner_remove(i) ==
    /\ i \in DOMAIN om_objects
    /\ om_objects' = ListPop(om_objects, i - 1)
    /\ om_op' = [NoObjOp EXCEPT !.name = "remove"]
    /\ UNCHANGED <<om_r, om_c, om_transposed, om_non_editable, om_check_unique>>
    /\ UNCHANGED others_om

\* ObjectsModel.setData(index, value), index a cell of the view.
\* self.objects[obj_idx] raises IndexError and BranchType(value) ValueError:
\* the call then ends with no attribute set.
ObjectsModel_setData(row, col, value) ==
    /\ row \in 0..(ObjectsModel_rowCount - 1)
    /\ col \in 0..(ObjectsModel_columnCount - 1)
    /\ LET obj_idx == ObjectsModel_obj_idx(row, col)
           attr_idx == ObjectsModel_attr_idx(row, col)
           attr == Attributes[attr_idx + 1]
           tpe == AttrType[attr]
           taken == IF attr \in om_check_unique
                    THEN ObjectsModel_attr_taken(attr, value)
                    ELSE FALSE
           sets == ~taken /\ attr \notin om_non_editable
           raises == sets /\ (obj_idx >= Len(om_objects)
                              \/ (tpe = "BranchType" /\ ~BranchType_ok(value)))
           new == IF sets /\ ~raises
                  THEN [om_objects EXCEPT ![obj_idx + 1] =
                           IF tpe = "BranchType"
                           THEN [@ EXCEPT ![attr] = value, !.symbol = value]
                           ELSE [@ EXCEPT ![attr] = value]]
                  ELSE om_objects
       IN  /\ value \in AttrInputs(attr)
           /\ om_objects' = new
           /\ om_op' = [name |-> "setData", row |-> row, col |-> col, val |-> value,
                        changed |-> (new # om_objects),
                        ret |-> IF raises THEN "raised" ELSE "True"]
    /\ UNCHANGED <<om_r, om_c, om_transposed, om_non_editable, om_check_unique>>
    /\ UNCHANGED others_om

\* data_with_type(index) raises IndexError when the object is missing and
\* ValueError when BranchType() is given a value that is not a member
ObjectsModel_data_with_type_ok(row, col) ==
    LET obj_idx == ObjectsModel_obj_idx(row, col)
        attr == Attributes[ObjectsModel_attr_idx(row, col) + 1]
    IN  /\ obj_idx < Len(om_objects)
        /\ AttrType[attr] = "BranchType" => BranchType_ok(om_objects[obj_idx + 1][attr])

\* ObjectsModel.data_with_type(index): the attribute's value (BranchType()
\* of a member is that member; no attribute of the header is of type Bus)
ObjectsModel_data_with_type(row, col) ==
    om_objects[ObjectsModel_obj_idx(row, col) + 1]
              [Attributes[ObjectsModel_attr_idx(row, col) + 1]]

\* the loop of copy_to_column writes the cells that are not editable as well
CopyRows_non_editable_too(objs, row, col, value) ==
    [i \in DOMAIN objs |-> [a \in DOMAIN objs[i] |->
        IF a = "symbol" THEN objs[i][a]
        ELSE IF om_transposed
             THEN IF i = col + 1 THEN value ELSE objs[i][a]
             ELSE IF a = Attributes[col + 1] /\ i <= ObjectsModel_rowCount
                  THEN value ELSE objs[i][a]]]

\* the loop of copy_to_column runs over every cell of the view
CopyRows_all_columns(objs, row, col, value) ==
    [i \in DOMAIN objs |-> [a \in DOMAIN objs[i] |->
        IF a \in om_non_editable \/ a = "symbol" THEN objs[i][a] ELSE value]]

\* the loop of copy_to_column, from view row `row` on: self.objects[obj_idx]
\* raises IndexError, which ends the loop with the earlier rows written
RECURSIVE CopyRows(_, _, _, _)
CopyRows(objs, row, col, value) ==
    IF row >= ObjectsModel_rowCount THEN objs
    ELSE LET obj_idx == ObjectsModel_obj_idx(row, col)
             attr == Attributes[ObjectsModel_attr_idx(row, col) + 1]
         IN  IF attr \in om_non_editable THEN CopyRows(objs, row + 1, col, value)
             ELSE IF obj_idx >= Len(objs) THEN objs
             ELSE CopyRows([objs EXCEPT ![obj_idx + 1][attr] = value],
                           row + 1, col, value)

\* the loop of copy_to_column meets a missing object
CopyRaises(col) ==
    \E row \in 0..(ObjectsModel_rowCount - 1) :
        /\ Attributes[ObjectsModel_attr_idx(row, col) + 1] \notin om_non_editable
        /\ ObjectsModel_obj_idx(row, col) >= Len(om_objects)

\* ObjectsModel.copy_to_column(index), index a cell of the view
ObjectsModel_copy_to_column(row, col) ==
    /\ row \in 0..(ObjectsModel_rowCount - 1)
    /\ col \in 0..(ObjectsModel_columnCount - 1)
    /\ IF ObjectsModel_data_with_type_ok(row, col)
       THEN LET value == ObjectsModel_data_with_type(row, col)
                new == CopyRows(om_objects, 0, col, value)
            IN  /\ om_objects' = new
                /\ om_op' = [name |-> "copy_to_column", row |-> row, col |-> col,
                             val |-> value, changed |-> (new # om_objects),
                             ret |-> IF CopyRaises(col) THEN "raised" ELSE "None"]
       ELSE /\ om_objects' = om_objects
            /\ om_op' = [name |-> "copy_to_column", row |-> row, col |-> col,
                         val |-> "", changed |-> FALSE, ret |-> "raised"]
    /\ UNCHANGED <<om_r, om_c, om_transposed, om_non_editable, om_check_unique>>
    /\ UNCHANGED others_om

\* row and column numbers of view cells (the guards of the calls keep those
\* below rowCount and columnCount)
ViewIndices == 0..(MaxObjects + Len(Attributes))

AllInputs == UNION {AttrInputs(Attributes[k]) : k \in DOMAIN Attributes}

NextObjects ==
    \/ \E o \in NewObjects : Owner_append(o)
    \/ \E i \in 1..MaxObjects : Owner_remove(i)
    \/ \E row \in ViewIndices, col \in ViewIndices, v \in AllInputs :
          ObjectsModel_setData(row, col, v)

InitObjects == ObjectsInit /\ HistoryInit /\ ThreadRest /\ WiresRest /\ ResultsRest

SpecObjects == InitObjects /\ [][NextObjects]_vars

\* the calls on a model whose owner only removes objects
NextCopy ==
    \/ \E i \in 1..MaxObjects : Owner_remove(i)
    \/ \E row \in 0..(ObjectsModel_rowCount - 1) :
       \E col \in 0..(ObjectsModel_columnCount - 1) :
       \E v \in AttrInputs(Attributes[ObjectsModel_attr_idx(row, col) + 1]) :
          ObjectsModel_setData(row, col, v)
    \/ \E row \in 0..(ObjectsModel_rowCount - 1) :
       \E col \in 0..(ObjectsModel_columnCount - 1) :
          ObjectsModel_copy_to_column(row, col)

SpecCopy == InitObjects /\ [][NextCopy]_vars

----------------------------------------------------------------------------
(***************************************************************************)
(* ResultsModel / PandasModel: the cells as text                           *)
(***************************************************************************)

\* the number of rows of a table
MaxRows == 2

\* cols_c of the tables
ColumnLists == {<<>>, <<"P">>, <<"P", "Q">>}

\* decimals of PandasModel(data, decimals=6); table.format_string of a
\* ResultsModel is of the same form
Decimals == {0, 6}

\* the numbers of the cells, in tenths
FloatVals == {-5, 0, 5}

\* the cells of an array of one dtype
Cells(dtype) ==
    CASE dtype = "float" -> {[re |-> x, im |-> 0, s |-> ""] : x \in FloatVals}
      [] dtype = "complex" -> {[re |-> 0, im |-> 0, s |-> ""], [re |-> 5, im |-> 0, s |-> ""],
                               [re |-> 0, im |-> 5, s |-> ""]}
      [] OTHER -> {[re |-> 0, im |-> 0, s |-> t] : t \in {"0", "x"}}

\* the arrays of n columns
Tables(dtype, n) == UNION {[1..r -> [1..n -> Cells(dtype)]] : r \in 0..MaxRows}

Abs(x) == IF x < 0 THEN -x ELSE x

\* n times "0"
RECURSIVE Zeros(_)
Zeros(n) == IF n <= 0 THEN "" ELSE "0" \o Zeros(n - 1)

\* sep.join(texts)
RECURSIVE Join(_, _)
Join(texts, sep) ==
    IF Len(texts) = 0 THEN ""
    ELSE IF Len(texts) = 1 THEN texts[1]
    ELSE texts[1] \o sep \o Join(Tail(texts), sep)

\* str(x) of a float: the shortest text that reads back as x
StrFloat(x) ==
    (IF x < 0 THEN "-" ELSE "") \o ToString(Abs(x) \div 10) \o "." \o ToString(Abs(x) % 10)

\* a part of a complex number in str(x): whole numbers come without ".0"
StrPart(x) ==
    IF Abs(x) % 10 = 0 THEN ToString(x \div 10) ELSE StrFloat(x)

\* str(x) of a complex number
StrComplex(c) ==
    IF c.re = 0 THEN StrPart(c.im) \o "j"
    ELSE "(" \o StrPart(c.re) \o (IF c.im < 0 THEN "-" ELSE "+")
             \o StrPart(Abs(c.im)) \o "j)"

\* str(x) of a cell
StrCell(dtype, c) ==
    CASE dtype = "float" -> StrFloat(c.re)
      [] dtype = "complex" -> StrComplex(c)
      [] OTHER -> c.s

\* x.__format__('.<d>f') of a float: x rounded to d decimals, halves to even
FormatFloat(x, d) ==
    LET q == Abs(x) \div 10
        rem == Abs(x) % 10
        rounded == IF rem > 5 \/ (rem = 5 /\ q % 2 = 1) THEN q + 1 ELSE q
    IN  (IF x < 0 THEN "-" ELSE "")
        \o (IF d = 0 THEN ToString(rounded)
            ELSE ToString(q) \o "." \o ToString(rem) \o Zeros(d - 1))

\* x.__format__('.<d>f') of a complex number
FormatComplex(c, d) ==
    FormatFloat(c.re, d) \o (IF c.im < 0 THEN "-" ELSE "+")
        \o FormatFloat(Abs(c.im), d) \o "j"

\* data[t, :].sum() != 0.0
RECURSIVE SumRe(_)
SumRe(row) == IF Len(row) = 0 THEN 0 ELSE row[1].re + SumRe(Tail(row))

RECURSIVE SumIm(_)
SumIm(row) == IF Len(row) = 0 THEN 0 ELSE row[1].im + SumIm(Tail(row))

\* the condition of fast_data_to_text under which a row is written
RowWritten(row) == SumRe(row) # 0 \/ SumIm(row) # 0

\* the line of row t: the index value, then the values
RowText(dtype, data, index, t) ==
    ToString(index[t]) \o "\t"
        \o Join([k \in DOMAIN data[t] |-> StrCell(dtype, data[t][k])], "\t") \o "\n"

\* the loop of fast_data_to_text, from row t on
RECURSIVE RowsText(_, _, _, _)
RowsText(dtype, data, index, t) ==
    IF t > Len(index) THEN ""
    ELSE (IF RowWritten(data[t]) THEN RowText(dtype, data, index, t) ELSE "")
         \o RowsText(dtype, data, index, t + 1)

\* fast_data_to_text(data, columns, index)
fast_data_to_text(dtype, data, columns, index) ==
    "\t" \o Join(columns, "\t") \o "\n" \o RowsText(dtype, data, index, 1)

\* the sum of a row of texts raises TypeError
SumRaises(dtype, data) == dtype = "str" /\ Len(data) > 0

\* the loaded table
ResultsInit ==
    /\ rm_dtype \in {"float", "complex", "str"}
    /\ rm_columns \in ColumnLists
    /\ rm_data \in Tables(rm_dtype, Len(rm_columns))
    /\ rm_index = [t \in 1..Len(rm_data) |-> t - 1]
    /\ rm_decimals \in Decimals
    /\ rm_clip = ""
    /\ rm_op = NoResOp

\* ResultsModel.copy_to_clipboard
ResultsModel_copy_to_clipboard ==
    /\ IF Len(rm_columns) > 0 /\ ~SumRaises(rm_dtype, rm_data)
       THEN rm_clip' = fast_data_to_text(rm_dtype, rm_data, rm_columns, rm_index)
       ELSE rm_clip' = rm_clip
    /\ rm_op' = [NoResOp EXCEPT !.name = "copy_to_clipboard",
                   !.raised = (Len(rm_columns) > 0 /\ SumRaises(rm_dtype, rm_data))]
    /\ UNCHANGED <<rm_dtype, rm_data, rm_columns, rm_index, rm_decimals>>
    /\ UNCHANGED others_rm

Roles == {"DisplayRole", "BackgroundRole"}

\* a zero is formatted like every other number
CellText_formats_zero(dtype, c, d) ==
    CASE dtype = "str" -> c.s
      [] dtype = "complex" -> FormatComplex(c, d)
      [] OTHER -> FormatFloat(c.re, d)

\* the text data() returns for a cell under the display role
CellText(dtype, c, d) ==
    CASE dtype = "str" -> c.s
      [] dtype = "complex" -> IF c.re # 0 \/ c.im # 0 THEN FormatComplex(c, d) ELSE "0"
      [] OTHER -> IF c.re # 0 THEN FormatFloat(c.re, d) ELSE "0"

\* index.isValid(): a valid index is a cell of the table (rows and columns
\* counted from 1 here), the invalid index has row and column -1
IndexOk(valid, row, col) ==
    IF valid THEN row \in 1..Len(rm_data) /\ col \in 1..Len(rm_columns)
    ELSE row = -1 /\ col = -1

\* ResultsModel.data(index, role): the cell is read for a valid index, its
\* text returned for the display role, None otherwise
ResultsModel_data(valid, role, row, col) ==
    /\ IndexOk(valid, row, col)
    /\ rm_op' = IF valid
                THEN LET val == rm_data[row][col]
                     IN  IF role = "DisplayRole"
                         THEN [NoResOp EXCEPT !.name = "ResultsModel.data", !.valid = valid,
                                 !.role = role, !.row = row, !.col = col, !.none = FALSE,
                                 !.text = CellText(rm_dtype, val, rm_decimals)]
                         ELSE [NoResOp EXCEPT !.name = "ResultsModel.data", !.valid = valid,
                                 !.role = role, !.row = row, !.col = col]
                ELSE [NoResOp EXCEPT !.name = "ResultsModel.data", !.valid = valid,
                        !.role = role, !.row = row, !.col = col]
    /\ UNCHANGED <<rm_dtype, rm_data, rm_columns, rm_index, rm_decimals, rm_clip>>
    /\ UNCHANGED others_rm

\* PandasModel.data(index, role): the cell is read and its text returned
\* for a valid index under the display role, None otherwise
PandasModel_data(valid, role, row, col) ==
    /\ IndexOk(valid, row, col)
    /\ rm_op' = IF valid /\ role = "DisplayRole"
                THEN [NoResOp EXCEPT !.name = "PandasModel.data", !.valid = valid,
                        !.role = role, !.row = row, !.col = col, !.none = FALSE,
                        !.text = CellText(rm_dtype, rm_data[row][col], rm_decimals)]
                ELSE [NoResOp EXCEPT !.name = "PandasModel.data", !.valid = valid,
                        !.role = role, !.row = row, !.col = col]
    /\ UNCHANGED <<rm_dtype, rm_data, rm_columns, rm_index, rm_decimals, rm_clip>>
    /\ UNCHANGED others_rm

NextResults ==
    \/ ResultsModel_copy_to_clipboard
    \/ \E valid \in BOOLEAN, role \in Roles :
       \E row \in -1..Len(rm_data), col \in -1..Len(rm_columns) :
          ResultsModel_data(valid, role, row, col)
    \/ \E valid \in BOOLEAN, role \in Roles :
       \E row \in -1..Len(rm_data), col \in -1..Len(rm_columns) :
          PandasModel_data(valid, role, row, col)

InitResults == ResultsInit /\ HistoryInit /\ ThreadRest /\ WiresRest /\ ObjectsRest

SpecResults == InitResults /\ [][NextResults]_vars

----------------------------------------------------------------------------
(* Claims on ObjectHistory / ProfilesModel                                 *)

\* C1: after any sequence of add_state, undo and redo calls the undo stack
\* never holds more than max_undo_states entries.
C1_UndoStackBounded == Len(undo_stack) <= MaxUndoStates

\* C2: after a setData call that changed a cell of an editable column, one
\* undo() makes the profile of that column hold the values it had immediately
\* before the setData call.
C2_UndoRestoresPreEdit ==
    [][(pm_op.name = "setData" /\ pm_op.changed /\ pm_op'.name = "undo")
        => Content(heap', profile', pm_op.col) = pm_op.before]_vars

\* C3: undo() (redo()) pops the top entry of the undo (redo) stack, sets the
\* profile of every column the entry records to exactly the stored snapshot,
\* leaves the profile of every other column unchanged, and pushes the entry
\* onto the other stack.
C3_Moved(from, to, from2, to2) ==
    LET e == Top(from)
    IN  /\ from2 = Pop(from)
        /\ to2 = Append(to, e)
        /\ \A c \in Cols :
              IF c \in DOMAIN e.data
              THEN /\ profile'[c] = e.data[c]
                   /\ Content(heap', profile', c) = heap[e.data[c]]
              ELSE /\ profile'[c] = profile[c]
                   /\ Content(heap', profile', c) = Content(heap, profile, c)

C3_UndoRedoEffect ==
    [][/\ (pm_op'.name = "undo" /\ History_can_undo)
          => C3_Moved(undo_stack, redo_stack, undo_stack', redo_stack')
       /\ (pm_op'.name = "redo" /\ History_can_redo)
          => C3_Moved(redo_stack, undo_stack, redo_stack', undo_stack')]_vars

\* C3 witness: a redo (after an undo) has re-applied an entry that records
\* only some of the columns, onto a profile that differed from its snapshot.
C3_Witness ==
    /\ pm_op.name = "redo" /\ pm_op.changed
    /\ Len(undo_stack) > 0
    /\ DOMAIN Top(undo_stack).data # Cols
    /\ \E c \in Cols : Content(heap, profile, c) # [r \in Rows |-> 0]

----------------------------------------------------------------------------
(* Claims on FileOpenThread / FileSaveThread                               *)

DoneEmitted == Count(th_events, "done_signal") > 0

C5_StateInPlaceAtDone ==
    DoneEmitted =>
        /\ th_valid
        /\ th_logger = eng_logger
        /\ th_kind = "open" =>
              /\ th_circuit = eng_ret
              /\ th_circuit # <<"empty", th_runs>>
              /\ th_circuit # NoCircuit

\* C5 witness: FileOpenThread has emitted done_signal in its second run,
\* with errors in the engine's log.
C5_Witness ==
    /\ DoneEmitted
    /\ th_kind = "open"
    /\ th_runs = 2
    /\ Len(eng_logger) > 0

\* C6: cancel(), at whatever point it is called, changes only the cancel
\* flag; a run that returns has called the engine, set valid to True and
\* emitted done_signal, cancelled or not.
C6_CancelChangesOnlyFlag ==
    [][/\ (th_cancel' # th_cancel) =>
            UNCHANGED <<th_kind, th_pc, th_valid, th_logger, th_circuit,
                        th_events, th_runs, eng_logger, eng_called, eng_ret>>
       /\ (th_pc' = "finished" /\ th_cancel') =>
            (eng_called' /\ th_valid' /\ Count(th_events', "done_signal") = 1)
       /\ (th_cancel /\ th_pc \in {"l91", "l183"}) => th_pc' \in {th_pc, "engine"}]_vars

\* C6 witness: cancel() was called while the engine call was running, and
\* the run has returned with valid set.
C6_Witness ==
    /\ th_cancel_at = "engine"
    /\ th_pc = "finished"
    /\ th_valid
    /\ DoneEmitted

\* C7: errors in the engine's log do not stop the run and are surfaced at
\* completion: from its reset in run until the engine call has returned the
\* thread's logger is empty, and when done_signal is emitted it holds every
\* error of the engine's log.
C7_ErrorsSurfacedAtCompletion ==
    /\ th_pc \in {"l89", "l91", "l94", "l176", "l183", "engine"} => th_logger = <<>>
    /\ (th_pc = "engine" /\ Len(eng_logger) > 0) =>
          ENABLED (Open_l91_return \/ Save_l183_return)
    /\ DoneEmitted =>
          \A i \in DOMAIN eng_logger :
              \E j \in DOMAIN th_logger : th_logger[j] = eng_logger[i]

\* C7 witness: a second run has emitted done_signal after its engine call
\* recorded two errors.
C7_Witness ==
    /\ DoneEmitted
    /\ th_runs = 2
    /\ Len(eng_logger) = 2
    /\ \A i \in DOMAIN eng_logger : eng_logger[i][2] = 2

----------------------------------------------------------------------------
(* Claims on the tower builder's table models                              *)

\* C8: after any sequence of add and delete calls on a WiresTable,
\* WiresCollection or TowerModel, rowCount() is the current number of wires
\* of the underlying list (those it started with, plus the added, minus the
\* removed ones) and columnCount() is the number of header entries.
C8_CountsMatchList ==
    /\ Wires_rowCount = Len(wm_wires)
    /\ Wires_rowCount = wm_count
    /\ Wires_columnCount = Len(wm_header)
    /\ wm_header \in Headers(wm_kind)

\* C8 witness: a TowerModel that still holds wires after a delete call which
\* followed adds.
C8_Witness ==
    /\ wm_kind = "TowerModel"
    /\ wm_op.name = "delete"
    /\ wm_op.index = -1
    /\ Len(wm_wires) = 2

----------------------------------------------------------------------------
(* Claims on ObjectsModel                                                  *)

\* C9: at every moment the row count ObjectsModel reports is the current
\* length of the objects list and the column count the number of attributes
\* (the two swapped when transposed), also after objects were appended to or
\* removed from the list since construction.
C9_CountsMatchList ==
    /\ ObjectsModel_rowCount =
          (IF om_transposed THEN Len(Attributes) ELSE Len(om_objects))
    /\ ObjectsModel_columnCount =
          (IF om_transposed THEN Len(om_objects) ELSE Len(Attributes))

\* C10: setData at index (row, col) changes at most one value: attribute
\* attributes[col] of objects[row], or attributes[row] of objects[col] when
\* transposed; every other attribute of that object and every attribute of
\* every other object keeps its value.
C10_SetDataFrame ==
    [][om_op'.name = "setData" =>
        LET row == om_op'.row
            col == om_op'.col
            obj == (IF om_transposed THEN col ELSE row) + 1
            attr == Attributes[(IF om_transposed THEN row ELSE col) + 1]
        IN  /\ Len(om_objects') = Len(om_objects)
            /\ \A i \in DOMAIN om_objects : \A k \in DOMAIN Attributes :
                  (i # obj \/ Attributes[k] # attr) =>
                      om_objects'[i][Attributes[k]] = om_objects[i][Attributes[k]]
            /\ om_op'.changed => om_objects'[obj][attr] = om_op'.val]_vars

\* C10 witness: a transposed model over two objects, where setData at a
\* cell off the diagonal has changed a value.
C10_Witness ==
    /\ om_op.name = "setData" /\ om_op.changed
    /\ om_transposed
    /\ Len(om_objects) = 2
    /\ om_op.row # om_op.col

(***************************************************************************)
(* Claims on ObjectsModel: uniqueness, non-editable attributes, copying    *)
(***************************************************************************)

\* the objects hold pairwise distinct values of attr
Distinct(objs, attr) ==
    \A i \in DOMAIN objs : \A j \in DOMAIN objs :
        i # j => objs[i][attr] # objs[j][attr]

\* the attribute a call at view cell (row, col) is about
OpAttr(op) == Attributes[(IF om_transposed THEN op.row ELSE op.col) + 1]

\* C11: for an attribute of check_unique whose values are pairwise distinct
\* before a setData call, they are pairwise distinct after it, and a setData
\* whose value some object already holds for that attribute leaves every
\* object unchanged.
C11_UniqueKept ==
    [][om_op'.name = "setData" =>
        \A a \in om_check_unique :
            /\ Distinct(om_objects, a) => Distinct(om_objects', a)
            /\ (OpAttr(om_op') = a
                /\ \E i \in DOMAIN om_objects : om_objects[i][a] = om_op'.val)
               => om_objects' = om_objects]_vars

\* C11 witness: setData on the unique attribute of a model over two objects
\* of distinct names, with the name the other object holds: nothing changed.
C11_Witness ==
    /\ om_op.name = "setData" /\ ~om_op.changed /\ om_op.ret = "True"
    /\ "name" \in om_check_unique /\ OpAttr(om_op) = "name"
    /\ Len(om_objects) = 2 /\ Distinct(om_objects, "name")
    /\ LET obj == (IF om_transposed THEN om_op.col ELSE om_op.row) + 1
       IN  /\ obj \in DOMAIN om_objects
           /\ om_objects[obj].name # om_op.val
           /\ \E i \in DOMAIN om_objects : om_objects[i].name = om_op.val

(***************************************************************************)
(* Claims on the wire tables: names                                        *)
(***************************************************************************)

\* the wires have pairwise distinct names
DistinctNames(wires) ==
    \A i \in DOMAIN wires : \A j \in DOMAIN wires :
        i # j => wires[i].name # wires[j].name

\* C12: in a WiresTable whose wires have pairwise distinct names, a setData
\* call leaves the names pairwise distinct (a name used by another wire is
\* rejected and the edited wire keeps its name).
C12_NamesStayDistinct ==
    [][(wm_kind = "WiresTable" /\ wm_op'.name = "setData"
        /\ DistinctNames(wm_wires)) => DistinctNames(wm_wires')]_vars

(***************************************************************************)
(* Claims on ResultsModel / PandasModel: the text of the table             *)
(***************************************************************************)

\* one line per index entry, from entry t on
RECURSIVE AllRowsText(_)
AllRowsText(t) ==
    IF t > Len(rm_index) THEN ""
    ELSE RowText(rm_dtype, rm_data, rm_index, t) \o AllRowsText(t + 1)

\* C13: for a table with at least one column the text fast_data_to_text
\* produces is the header row (an empty field, then the column names)
\* followed by one row per index entry, in index order, each the index value
\* followed by the values of the row, tab-separated and ended by a newline.
C13_OneRowPerIndexEntry ==
    (rm_op.name = "copy_to_clipboard" /\ Len(rm_columns) >= 1 /\ ~rm_op.raised)
        => rm_clip = "\t" \o Join(rm_columns, "\t") \o "\n" \o AllRowsText(1)

\* the cell the last data() call was asked for
OpCell == rm_data[rm_op.row][rm_op.col]

IsDataOp == rm_op.name \in {"ResultsModel.data", "PandasModel.data"}

\* the cell is a number that is not zero
NonZero(c) == rm_dtype # "str" /\ (c.re # 0 \/ c.im # 0)

\* C14 as stated: data() returns None for an invalid index or another role;
\* for the display role at a valid index it returns "0" for a zero number, a
\* string cell unchanged, and a text other than "0" for a nonzero number.
C14_DataText ==
    IsDataOp =>
        IF rm_op.valid /\ rm_op.role = "DisplayRole"
        THEN /\ ~rm_op.none
             /\ rm_dtype = "str" => rm_op.text = OpCell.s
             /\ (rm_dtype # "str" /\ ~NonZero(OpCell)) => rm_op.text = "0"
             /\ NonZero(OpCell) => rm_op.text # "0"
        ELSE rm_op.none

\* C14 amended: as above, but a nonzero number is returned as its text under
\* format_string, which is other than "0" when the format keeps at least one
\* decimal.
C14_DataTextFormatted ==
    IsDataOp =>
        IF rm_op.valid /\ rm_op.role = "DisplayRole"
        THEN /\ ~rm_op.none
             /\ rm_dtype = "str" => rm_op.text = OpCell.s
             /\ (rm_dtype # "str" /\ ~NonZero(OpCell)) => rm_op.text = "0"
             /\ NonZero(OpCell) =>
                  /\ rm_op.text = IF rm_dtype = "complex"
                                  THEN FormatComplex(OpCell, rm_decimals)
                                  ELSE FormatFloat(OpCell.re, rm_decimals)
                  /\ rm_decimals >= 1 => rm_op.text # "0"
        ELSE rm_op.none

\* C14 witness: PandasModel.data has returned the text of a nonzero number
\* of a second row under a format of six decimals.
C14_Witness ==
    /\ rm_op.name = "PandasModel.data" /\ rm_op.valid /\ rm_op.role = "DisplayRole"
    /\ rm_op.row = 2 /\ rm_dtype = "float" /\ rm_decimals = 6
    /\ OpCell.re = -5 /\ rm_op.text = "-0.500000"

(***************************************************************************)
(* Claims on ObjectHistory / ProfilesModel: redo and stored snapshots      *)
(***************************************************************************)

\* C15: can_redo() is False after every add_state: once a new state is
\* recorded no redo is possible until an undo is performed.
C15_NoRedoAfterAddState ==
    pm_op.name = "h_add_state" => ~History_can_redo

\* the arrays held by the entries of a stack
StoredArrays(stack) ==
    UNION {{stack[k].data[c] : c \in DOMAIN stack[k].data} : k \in DOMAIN stack}

\* C16: the column values stored in an entry of the undo or redo stack stay
\* what they were when the entry was recorded, whatever call comes next.
C16_SnapshotsImmutable ==
    [][\A a \in StoredArrays(undo_stack) \cup StoredArrays(redo_stack) :
          heap'[a] = heap[a]]_vars

(***************************************************************************)
(* Claims on FileOpenThread / FileSaveThread: valid, completion            *)
(***************************************************************************)

\* the positions of run after the engine's open/save call has returned
AfterEngineCall == {"l94", "l95", "l98", "l100", "l185", "l188", "l190", "finished"}

\* C17: valid is True only if the most recently started run has finished its
\* engine call: it is False from construction, and from the start of every
\* run until the engine's open/save call of that run has returned.
C17_ValidOnlyAfterEngineCall ==
    th_valid => (th_runs >= 1 /\ th_pc \in AfterEngineCall)

\* C18: every started run emits done_signal, whether the engine call returns
\* or raises: a run that has ended has emitted it.
C18_EndedRunEmittedDone ==
    (th_runs >= 1 /\ th_pc \in {"finished", "raised"}) => DoneEmitted

\* C19: setData and copy_to_column never change, on any object, an attribute
\* of non_editable_attributes; a setData on such an attribute, like one whose
\* value is already taken, leaves all objects unchanged and returns True.
C19_NonEditableKept ==
    [][om_op'.name \in {"setData", "copy_to_column"} =>
        /\ Len(om_objects') = Len(om_objects)
        /\ \A i \in DOMAIN om_objects : \A a \in om_non_editable :
              om_objects'[i][a] = om_objects[i][a]
        /\ (/\ om_op'.name = "setData"
            /\ \/ OpAttr(om_op') \in om_non_editable
               \/ /\ OpAttr(om_op') \in om_check_unique
                  /\ \E i \in DOMAIN om_objects :
                        om_objects[i][OpAttr(om_op')] = om_op'.val)
           => (om_objects' = om_objects /\ om_op'.ret = "True")]_vars

\* C19 witness: in a transposed model whose rate is not editable,
\* copy_to_column from the rate cell of an object has written the rate's
\* value to the object's name and left the rate alone.
C19_Witness ==
    /\ om_op.name = "copy_to_column" /\ om_op.changed /\ om_op.ret = "None"
    /\ om_transposed /\ "rate" \in om_non_editable
    /\ Attributes[om_op.row + 1] = "rate"
    /\ om_objects[om_op.col + 1].rate = om_op.val
    /\ om_objects[om_op.col + 1].name = om_op.val

C21_CopyKeepsUnique ==
    [][om_op'.name = "copy_to_column" =>
        \A a \in om_check_unique :
            Distinct(om_objects, a) => Distinct(om_objects', a)]_vars

(***************************************************************************)
(* Claims on ProfilesModel: setData and paste_from_clipboard               *)
(***************************************************************************)

\* C22: setData at (r, c) with c editable writes the value into cell r of
\* the profile of column c and changes no other cell, and pushes one entry
\* onto the undo history that records column c only (with the column as it is
\* after the write); with c in non_editable_indices no profile changes and
\* no entry is added. In both cases it returns True.
C22_SetDataFrame ==
    [][pm_op'.name = "setData" =>
        LET r == pm_op'.row
            c == pm_op'.col
        IN  /\ pm_op'.ret = "True"
            /\ profile' = profile /\ redo_stack' = redo_stack
            /\ IF c \notin non_editable_indices
               THEN /\ \A c2 \in Cols : \A r2 \in Rows :
                          Content(heap', profile', c2)[r2] =
                              IF c2 = c /\ r2 = r THEN pm_op'.val
                              ELSE Content(heap, profile, c2)[r2]
                    /\ Len(undo_stack') >= 1
                    /\ \/ Pop(undo_stack') = undo_stack
                       \/ History_too_long(undo_stack) /\ Pop(undo_stack') = Tail(undo_stack)
                    /\ LET e == Top(undo_stack')
                       IN  /\ DOMAIN e.data = {c}
                           /\ e.data[c] \notin DOMAIN heap
                           /\ heap'[e.data[c]] = Content(heap', profile', c)
               ELSE /\ \A c2 \in Cols : Content(heap', profile', c2) = Content(heap, profile, c2)
                    /\ undo_stack' = undo_stack]_vars

\* C22 witness: after an undo, setData has changed a cell of column 0 and
\* the undo stack has gained the entry of that column.
C22_Witness ==
    /\ pm_op.name = "setData" /\ pm_op.changed /\ pm_op.col = 0
    /\ Len(redo_stack) >= 1 /\ Len(undo_stack) >= 2
    /\ DOMAIN Top(undo_stack).data = {0}
    /\ Content(heap, profile, 0)[pm_op.row] = pm_op.val

\* the fields of row r of a clipboard text
TextFields(text, r) == Split(Split(text, "\n")[r + 1], "\t")

\* the text positions (r, c) of a clipboard text
TextPositions(text) ==
    {<<r, c>> : r \in 0..MaxArrays, c \in 0..MaxArrays} \cap
    UNION {{<<r, c>> : c \in 0..(Len(TextFields(text, r)) - 1)} :
              r \in 0..(Len(Split(text, "\n")) - 1)}

\* the text positions whose value parses and lands on cell (r2, c2)
Sources(text, row_idx, col_idx, r2, c2) ==
    {p \in TextPositions(text) :
        /\ p[1] + row_idx = r2 /\ p[2] + col_idx = c2
        /\ Formatter_ok(TextFields(text, p[1])[p[2] + 1])}

\* C23: paste_from_clipboard(row_idx, col_idx) writes the parsed value at
\* text position (r, c) to cell (r + row_idx, c + col_idx) of the profiles,
\* only for a column below the number of elements and a row below the number
\* of time steps; every other cell keeps its value; one entry named 'paste'
\* is added to the history if a cell was written, none otherwise.
C23_PasteFrame ==
    [][pm_op'.name = "paste" =>
        LET text == pm_op'.text
            row_idx == pm_op'.row
            col_idx == pm_op'.col
            written == \E r2 \in Rows, c2 \in Cols :
                           Sources(text, row_idx, col_idx, r2, c2) # {}
        IN  /\ profile' = profile /\ redo_stack' = redo_stack
            /\ \A r2 \in Rows, c2 \in Cols :
                  LET src == Sources(text, row_idx, col_idx, r2, c2)
                  IN  IF src = {}
                      THEN Content(heap', profile', c2)[r2] = Content(heap, profile, c2)[r2]
                      ELSE \A p \in src :
                              Content(heap', profile', c2)[r2] =
                                  Formatter(TextFields(text, p[1])[p[2] + 1])
            /\ IF written
               THEN /\ Len(undo_stack') >= 1
                    /\ Top(undo_stack').action = "paste"
                    /\ \/ Pop(undo_stack') = undo_stack
                       \/ History_too_long(undo_stack) /\ Pop(undo_stack') = Tail(undo_stack)
               ELSE undo_stack' = undo_stack]_vars

\* C23 witness: two columns pasted at row 1, column 1: the first value is
\* in cell (1, 1), the second fell out of bounds, column 0 is as it was and
\* the history has its 'paste' entry.
C23_Witness ==
    /\ pm_op.name = "paste" /\ pm_op.changed
    /\ pm_op.text = <<"1", "\t", "1">> /\ pm_op.row = 1 /\ pm_op.col = 1
    /\ Content(heap, profile, 1) = [r \in Rows |-> IF r = 1 THEN 1 ELSE 0]
    /\ Content(heap, profile, 0) = [r \in Rows |-> 0]
    /\ Top(undo_stack).action = "paste"

\* C24: paste_from_clipboard never changes the profile of a column of
\* non_editable_indices.
C24_PasteKeepsNonEditable ==
    [][pm_op'.name = "paste" =>
        \A c \in non_editable_indices :
            Content(heap', profile', c) = Content(heap, profile, c)]_vars

====
